---- MODULE Spec2Model ----
(***************************************************************************)
(* Detection ingestion and aggregation service of conteo-objetos.          *)
(*                                                                         *)
(* Two entry points share one PostgreSQL database (DATABASE_URL):          *)
(*   "server"  - the Express application, src/backend/server.js            *)
(*   "handler" - the per-invocation function, src/unnamed/part_000         *)
(* Both create the table `detections` at module load and serve the five    *)
(* operations health / ingest / history / stats / purge.                   *)
(*                                                                         *)
(* Numbers: a score is modelled in whole percent (0.9 is 90), a value of   *)
(* the column avg_confidence DECIMAL(5,2) in hundredths (80.00 is 8000).   *)
(* A JavaScript object with optional fields is a record whose DOMAIN holds *)
(* the fields that are present.                                            *)
(***************************************************************************)
EXTENDS FiniteSets, Integers, Sequences, TLC

VARIABLES
    catalog,    \* tables of the database: a set of [name, columns]
    rows,       \* rows of the table detections
    nextId,     \* next value of the sequence behind `id SERIAL`
    clock,      \* the database clock read by CURRENT_TIMESTAMP
    request,    \* method and path of the request the latest step answered
    last        \* what the latest step did for whom, and its answer

vars == <<catalog, rows, nextId, clock, request, last>>

-----------------------------------------------------------------------------
(* Bounds of the model *)

MaxId == 2          \* ids the sequence hands out in one behaviour
MaxClock == 1       \* ticks of the database clock
MaxIndexKey == 10   \* largest integer-like label probed for

-----------------------------------------------------------------------------
(* Small helpers *)

Empty == [f \in {} |-> ""]

Min(a, b) == IF a < b THEN a ELSE b

RECURSIVE SumSeq(_)
SumSeq(s) == IF s = <<>> THEN 0 ELSE Head(s) + SumSeq(Tail(s))

MaxSet(S) == CHOOSE m \in S : \A n \in S : n <= m

EntryPoints == {"server", "handler"}

-----------------------------------------------------------------------------
(* Schema *)

\* server.js: the table the Express application creates (no detected_objects)
serverCreateTableQuery ==
    [name |-> "detections",
     columns |-> {"id", "timestamp", "source", "total_objects",
                  "unique_objects", "avg_confidence", "objects_data",
                  "created_at"}]

\* part_000: the table the function handler creates
createTableQuery ==
    [name |-> "detections",
     columns |-> {"id", "timestamp", "source", "total_objects",
                  "unique_objects", "avg_confidence", "detected_objects",
                  "objects_data", "created_at"}]

CreateTableOf(e) ==
    IF e = "server" THEN serverCreateTableQuery ELSE createTableQuery

TableExists(name) == \E t \in catalog : t.name = name

ColumnsOf(name) == UNION {t.columns : t \in {u \in catalog : u.name = name}}

\* What pool.query rejects with for a statement on `detections` that names
\* the columns `used`; "" when the statement runs.
ConnectionError == "connection terminated"
NoRelation == "relation \"detections\" does not exist"
NoColumn == "column does not exist"

QueryError(up, used) ==
    IF ~up THEN ConnectionError
    ELSE IF ~TableExists("detections") THEN NoRelation
    ELSE IF ~(used \subseteq ColumnsOf("detections")) THEN NoColumn
    ELSE ""

-----------------------------------------------------------------------------
(* Aggregator: the synchronous part of the ingest handlers *)

uniqueObjectsPerObject(objects) == Len(objects)

\* new Set(objects.map(obj => obj.class)).size
uniqueObjects(objects) ==
    Cardinality({objects[i].class : i \in DOMAIN objects})

\* (sum of score / totalObjects) * 100, then toFixed(2): hundredths,
\* rounded half up; 0 / 0 is NaN
avgConfidence(objects) ==
    LET total == Len(objects)
        sum  == SumSeq([i \in DOMAIN objects |-> objects[i].score])
    IN  IF total = 0 THEN "NaN"
        ELSE (2 * sum * 100 + total) \div (2 * total)

\* A property key that is a canonical array index ("0", "2", "10", not "02")
IsArrayIndex(name) == \E n \in 0..MaxIndexKey : ToString(n) = name

ArrayIndex(name) == CHOOSE n \in 0..MaxIndexKey : ToString(n) = name

\* objectNames.forEach(name => objectCounts[name] = (objectCounts[name]||0)+1)
objectCounts(objects) ==
    [name \in {objects[i].class : i \in DOMAIN objects} |->
        Cardinality({i \in DOMAIN objects : objects[i].class = name})]

FirstIndex(objects, name) ==
    CHOOSE i \in DOMAIN objects :
        /\ objects[i].class = name
        /\ \A j \in 1..(i - 1) : objects[j].class # name

\* Key order of an ordinary object: integer-like keys in ascending numeric
\* order, then the other string keys in order of creation.
KeyBefore(objects, a, b) ==
    IF IsArrayIndex(a) /\ IsArrayIndex(b) THEN ArrayIndex(a) < ArrayIndex(b)
    ELSE IF IsArrayIndex(a) THEN TRUE
    ELSE IF IsArrayIndex(b) THEN FALSE
    ELSE FirstIndex(objects, a) < FirstIndex(objects, b)

\* Object.entries(objectCounts): the keys in the order above
ObjectEntries(objects) ==
    LET counts == objectCounts(objects)
        keys == DOMAIN counts
        order == CHOOSE s \in [1..Cardinality(keys) -> keys] :
                    /\ \A i, j \in DOMAIN s : i # j => s[i] # s[j]
                    /\ \A i, j \in DOMAIN s :
                          i < j => KeyBefore(objects, s[i], s[j])
    IN  [i \in DOMAIN order |-> <<order[i], counts[order[i]]>>]

RECURSIVE Join(_, _)
Join(parts, sep) ==
    IF parts = <<>> THEN ""
    ELSE IF Len(parts) = 1 THEN parts[1]
    ELSE parts[1] \o sep \o Join(Tail(parts), sep)

\* .map(([name, count]) => `${name} (${count})`).join(', ')
detectedObjectsText(objects) ==
    LET entries == ObjectEntries(objects)
    IN  Join([i \in DOMAIN entries |->
                entries[i][1] \o " (" \o ToString(entries[i][2]) \o ")"],
             ", ")

\* const values = [source || 'camera', totalObjects, uniqueObjects,
\*                 avgConfidence.toFixed(2), detectedObjectsText,
\*                 JSON.stringify(objects)]
InsertValues(body) ==
    [source |-> IF "source" \in DOMAIN body /\ body.source # ""
                THEN body.source ELSE "camera",
     total_objects |-> Len(body.objects),
     unique_objects |-> uniqueObjects(body.objects),
     avg_confidence |-> avgConfidence(body.objects),
     detected_objects |-> detectedObjectsText(body.objects),
     objects_data |-> body.objects]

InsertColumns ==
    {"source", "total_objects", "unique_objects", "avg_confidence",
     "detected_objects", "objects_data"}

-----------------------------------------------------------------------------
(* Responses *)

\* part_000: the CORS headers every answer of the handler carries
headers ==
    [AccessControlAllowOrigin |-> "*",
     AccessControlAllowHeaders |-> "Content-Type",
     AccessControlAllowMethods |-> "GET, POST, PUT, DELETE, OPTIONS",
     ContentType |-> "application/json"]

\* The handler returns {statusCode, headers, body}; the Express routes call
\* res.status(code).json(body).
Response(e, status, body) ==
    IF e = "handler"
    THEN [statusCode |-> status, headers |-> headers, body |-> body]
    ELSE [statusCode |-> status, body |-> body]

\* The record kept in `last`: the entry point, the operation it ran, the
\* input of the operation (body or query), the parameters handed to
\* pool.query (as the text the driver sends), and the answer.
Answered(e, op, req, values, res) ==
    [entry |-> e, op |-> op, req |-> req, values |-> values, res |-> res]

NoRequest == [httpMethod |-> "", path |-> ""]

-----------------------------------------------------------------------------
(* Initial state: an empty database, no request answered yet *)

Init ==
    /\ catalog = {}
    /\ rows = {}
    /\ nextId = 1
    /\ clock = 0
    /\ request = NoRequest
    /\ last = Answered("none", "none", Empty, <<>>,
                       [statusCode |-> 0, body |-> Empty])

-----------------------------------------------------------------------------
(* initDatabase: CREATE TABLE IF NOT EXISTS detections, inside try/catch.
   It runs whenever a process of the entry point loads its module, and is
   not awaited: requests are served before, between and after its runs.
   `raced` says that the statement ran while another session was creating
   the same relation; the store then refuses it with a duplicate error
   instead of skipping it. *)

DuplicateRelation == "duplicate key value violates unique constraint"

initCatchRethrow(error) == "raised"

\* catch (error) { console.error(...) }: the error is logged, not rethrown
initCatch(error) == "logged"

\* CREATE TABLE IF NOT EXISTS: the catalog after the statement
CreateTableIfNotExists(table) ==
    IF TableExists(table.name) THEN catalog ELSE catalog \cup {table}

InitDatabase(e) ==
    \E up \in BOOLEAN, raced \in BOOLEAN :
      LET table == CreateTableOf(e)
          err == IF ~up THEN ConnectionError
                 ELSE IF raced /\ TableExists(table.name)
                 THEN DuplicateRelation
                 ELSE ""
      IN  /\ catalog' = IF err = "" THEN CreateTableIfNotExists(table)
                        ELSE catalog
          /\ last' = Answered(e, "init", Empty, <<>>,
                        [outcome |-> IF err = "" THEN "ok" ELSE initCatch(err),
                         error |-> err])
          /\ request' = NoRequest
          /\ UNCHANGED <<rows, nextId, clock>>

\* part_000: async function initDatabase()
initDatabase == InitDatabase("handler")

\* server.js: async function initDatabase()
serverInitDatabase == InitDatabase("server")

\* CURRENT_TIMESTAMP advances
Tick ==
    /\ clock < MaxClock
    /\ clock' = clock + 1
    /\ UNCHANGED <<catalog, rows, nextId, request, last>>

-----------------------------------------------------------------------------
(* The five operations.  Each handler is one try/catch around one
   `await pool.query(...)`; `up` says whether the store answers. *)

\* `const limit = query.limit || 50`
DefaultLimit == 50

\* The integers the text of a LIMIT parameter is read as; any other text is
\* refused by the store as not a bigint.
LimitValues == {-1, 0, 1, DefaultLimit, 1000000}

IsBigint(text) == \E n \in LimitValues : ToString(n) = text

Bigint(text) == CHOOSE n \in LimitValues : ToString(n) = text

InvalidBigint == "invalid input syntax for type bigint"
NegativeLimit == "LIMIT must not be negative"
Null == "null"

SelectColumns ==
    {"id", "timestamp", "source", "total_objects", "unique_objects",
     "avg_confidence", "detected_objects", "objects_data", "created_at"}

\* SELECT NOW()
Health(e) ==
    /\ \E up \in BOOLEAN :
       last' = Answered(e, "health", Empty,
                  <<>>,
                  IF up
                  THEN Response(e, 200, [status |-> "ok",
                                         database |-> "connected",
                                         timestamp |-> clock])
                  ELSE Response(e, 500, [status |-> "error",
                                         message |-> ConnectionError]))
    /\ UNCHANGED <<catalog, rows, nextId, clock>>

NoObjectsMissingOnly(body) == "objects" \notin DOMAIN body

\* if (!objects || objects.length === 0)
NoObjects(body) == "objects" \notin DOMAIN body \/ Len(body.objects) = 0

\* INSERT INTO detections (...) VALUES (...) RETURNING *, with the defaults
\* of the table: id from the sequence, timestamp and created_at from
\* CURRENT_TIMESTAMP, which is the instant the statement started.
insertQuery(values, started) ==
    [id |-> nextId,
     timestamp |-> started,
     source |-> values.source,
     total_objects |-> values.total_objects,
     unique_objects |-> values.unique_objects,
     avg_confidence |-> values.avg_confidence,
     detected_objects |-> values.detected_objects,
     objects_data |-> values.objects_data,
     created_at |-> started]

\* The ingest handler.  The step is the instant the store answers the
\* INSERT; `started` is the earlier instant at which the store began the
\* statement (statements of concurrent requests overlap, so a statement
\* answered later may have started earlier).
PostDetections(e, body) ==
    IF NoObjects(body)
    THEN /\ last' = Answered(e, "post",
                       body, <<>>,
                       Response(e, 400,
                                [error |-> "No hay objetos para guardar"]))
         /\ UNCHANGED <<catalog, rows, nextId, clock>>
    ELSE \E started \in 0..clock, up \in BOOLEAN :
         LET values == InsertValues(body)
             err == QueryError(up, InsertColumns)
             row == insertQuery(values, started)
         IN  /\ nextId <= MaxId
             /\ IF err = ""
                THEN /\ rows' = rows \cup {row}
                     /\ nextId' = nextId + 1
                     /\ last' = Answered(e, "post", body,
                                   values,
                                   Response(e, 200,
                                     [success |-> TRUE,
                                      message |->
                                        "Deteccion guardada exitosamente",
                                      data |-> row]))
                ELSE /\ last' = Answered(e, "post", body,
                                   values,
                                   Response(e, 500,
                                     [error |->
                                        "Error guardando en base de datos",
                                      details |-> err]))
                     /\ UNCHANGED <<rows, nextId>>
             /\ UNCHANGED <<catalog, clock>>

\* ORDER BY created_at DESC: every arrangement of the rows in which no row
\* comes before a row with a later created_at (rows with equal created_at
\* come in either order)
OrderByCreatedAtDesc(S) ==
    {s \in [1..Cardinality(S) -> S] :
        /\ \A i, j \in DOMAIN s : i # j => s[i] # s[j]
        /\ \A i, j \in DOMAIN s :
              i < j => s[i].created_at >= s[j].created_at}

\* SELECT ... FROM detections ORDER BY created_at DESC LIMIT $1
GetDetections(e, query) ==
    \E up \in BOOLEAN :
    LET limit == IF "limit" \in DOMAIN query /\ query.limit # ""
                 THEN query.limit ELSE ToString(DefaultLimit)
        err0 == QueryError(up, SelectColumns)
        err == IF err0 # "" THEN err0
               ELSE IF ~IsBigint(limit) THEN InvalidBigint
               ELSE IF Bigint(limit) < 0 THEN NegativeLimit
               ELSE ""
    IN  /\ IF err = ""
           THEN \E order \in OrderByCreatedAtDesc(rows) :
                  LET data == SubSeq(order, 1,
                                     Min(Bigint(limit), Len(order)))
                  IN  last' = Answered(e, "get", query,
                                <<limit>>,
                                Response(e, 200, [success |-> TRUE,
                                                  count |-> Len(data),
                                                  data |-> data]))
           ELSE last' = Answered(e, "get", query, <<limit>>,
                          Response(e, 500,
                                   [error |-> "Error obteniendo datos",
                                    details |-> err]))
        /\ UNCHANGED <<catalog, rows, nextId, clock>>

RECURSIVE SumTotalObjects(_)
SumTotalObjects(S) ==
    IF S = {} THEN 0
    ELSE LET r == CHOOSE x \in S : TRUE
         IN  r.total_objects + SumTotalObjects(S \ {r})

RECURSIVE SumAvgConfidence(_)
SumAvgConfidence(S) ==
    IF S = {} THEN 0
    ELSE LET r == CHOOSE x \in S : TRUE
         IN  r.avg_confidence + SumAvgConfidence(S \ {r})

statsQueryMaxUnique(S) ==
    [total_detections |-> Cardinality(S),
     total_objects_detected |->
        IF S = {} THEN Null ELSE SumTotalObjects(S),
     overall_avg_confidence |->
        IF S = {} THEN Null
        ELSE ToString(SumAvgConfidence(S)) \o "/" \o ToString(Cardinality(S)),
     max_objects_in_detection |->
        IF S = {} THEN Null ELSE MaxSet({r.unique_objects : r \in S})]

\* SELECT COUNT(*), SUM(total_objects), AVG(avg_confidence),
\* MAX(total_objects) FROM detections; the aggregates other than COUNT are
\* NULL over no rows.  The average is kept as the exact quotient num/den.
statsQuery(S) ==
    [total_detections |-> Cardinality(S),
     total_objects_detected |->
        IF S = {} THEN Null ELSE SumTotalObjects(S),
     overall_avg_confidence |->
        IF S = {} THEN Null
        ELSE ToString(SumAvgConfidence(S)) \o "/" \o ToString(Cardinality(S)),
     max_objects_in_detection |->
        IF S = {} THEN Null ELSE MaxSet({r.total_objects : r \in S})]

Stats(e) ==
    \E up \in BOOLEAN :
    LET err == QueryError(up, {"total_objects", "avg_confidence"})
    IN  /\ last' = Answered(e, "stats", Empty,
                      <<>>,
                      IF err = ""
                      THEN Response(e, 200, [success |-> TRUE,
                                             stats |-> statsQuery(rows)])
                      ELSE Response(e, 500,
                             [error |-> "Error obteniendo estadisticas",
                              details |-> err]))
        /\ UNCHANGED <<catalog, rows, nextId, clock>>

\* DELETE FROM detections
DeleteDetections(e) ==
    \E up \in BOOLEAN :
    LET err == QueryError(up, {})
    IN  /\ IF err = ""
           THEN /\ rows' = {}
                /\ last' = Answered(e, "delete", Empty, <<>>,
                              Response(e, 200,
                                [success |-> TRUE,
                                 message |->
                                   "Todas las detecciones han sido eliminadas"]))
           ELSE /\ UNCHANGED rows
                /\ last' = Answered(e, "delete", Empty, <<>>,
                              Response(e, 500,
                                [error |-> "Error eliminando datos",
                                 details |-> err]))
        /\ UNCHANGED <<catalog, nextId, clock>>

-----------------------------------------------------------------------------
(* The function handler, part_000.  The text of a request body is a
   sequence: <<>> is the empty string, <<v>> the JSON text of v. *)

\* async function handleOptions()
handleOptions ==
    /\ last' = Answered("handler", "options", Empty, <<>>,
                  [statusCode |-> 200, headers |-> headers, body |-> ""])
    /\ UNCHANGED <<catalog, rows, nextId, clock>>

handleHealth == Health("handler")

\* JSON.parse(body) throws on the empty string, inside the try
handlePostDetections(body) ==
    IF body = <<>>
    THEN /\ last' = Answered("handler", "post", [unparsed |-> ""], <<>>,
                       Response("handler", 500,
                         [error |-> "Error guardando en base de datos",
                          details |-> "Unexpected end of JSON input"]))
         /\ UNCHANGED <<catalog, rows, nextId, clock>>
    ELSE PostDetections("handler", body[1])

handleGetDetections(query) == GetDetections("handler", query)

handleStats == Stats("handler")

handleDeleteDetections == DeleteDetections("handler")

RoutePathOnly(method, path) ==
    IF path = "/.netlify/functions/api/health" THEN "health"
    ELSE IF path = "/.netlify/functions/api/detections" /\ method = "POST"
    THEN "post"
    ELSE IF path = "/.netlify/functions/api/detections" /\ method = "GET"
    THEN "get"
    ELSE IF path = "/.netlify/functions/api/stats" THEN "stats"
    ELSE IF path = "/.netlify/functions/api/detections" THEN "delete"
    ELSE "notfound"

\* the chain of `if (path === ... && method === ...)` of exports.handler
Route(method, path) ==
    IF path = "/.netlify/functions/api/health" /\ method = "GET"
    THEN "health"
    ELSE IF path = "/.netlify/functions/api/detections" /\ method = "POST"
    THEN "post"
    ELSE IF path = "/.netlify/functions/api/detections" /\ method = "GET"
    THEN "get"
    ELSE IF path = "/.netlify/functions/api/stats" /\ method = "GET"
    THEN "stats"
    ELSE IF path = "/.netlify/functions/api/detections" /\ method = "DELETE"
    THEN "delete"
    ELSE "notfound"

\* exports.handler = async (event) => ...
handler(event) ==
    /\ request' = [httpMethod |-> event.httpMethod, path |-> event.path]
    /\ IF event.httpMethod = "OPTIONS"
       THEN handleOptions
       ELSE
         LET path == event.path
             method == event.httpMethod
             query == IF "queryStringParameters" \in DOMAIN event
                      THEN event.queryStringParameters ELSE Empty
             body == IF "body" \in DOMAIN event THEN event.body ELSE <<>>
             route == Route(method, path)
         IN  IF route = "health" THEN handleHealth
             ELSE IF route = "post" THEN handlePostDetections(body)
             ELSE IF route = "get" THEN handleGetDetections(query)
             ELSE IF route = "stats" THEN handleStats
             ELSE IF route = "delete" THEN handleDeleteDetections
             ELSE /\ last' = Answered("handler", "notfound", Empty, <<>>,
                                Response("handler", 404,
                                         [error |-> "Ruta no encontrada"]))
                  /\ UNCHANGED <<catalog, rows, nextId, clock>>

-----------------------------------------------------------------------------
(* The Express application, server.js: one action per registered route *)

appGetHealth ==
    /\ request' = [httpMethod |-> "GET", path |-> "/api/health"]
    /\ Health("server")

appPostDetections(body) ==
    /\ request' = [httpMethod |-> "POST", path |-> "/api/detections"]
    /\ PostDetections("server", body)

appGetDetections(query) ==
    /\ request' = [httpMethod |-> "GET", path |-> "/api/detections"]
    /\ GetDetections("server", query)

appGetStats ==
    /\ request' = [httpMethod |-> "GET", path |-> "/api/stats"]
    /\ Stats("server")

appDeleteDetections ==
    /\ request' = [httpMethod |-> "DELETE", path |-> "/api/detections"]
    /\ DeleteDetections("server")

-----------------------------------------------------------------------------
(* Inputs *)

Batch3 ==
    << [class |-> "person", score |-> 50],
       [class |-> "car", score |-> 90],
       [class |-> "person", score |-> 100] >>

Batch5 ==
    << [class |-> "10", score |-> 90],
       [class |-> "2", score |-> 50],
       [class |-> "person", score |-> 50],
       [class |-> "10", score |-> 90],
       [class |-> "person", score |-> 100] >>

\* request bodies: `objects` missing, empty or a batch; `source` optional
Bodies ==
    {Empty, [source |-> "video"], [objects |-> <<>>],
     [source |-> "video", objects |-> <<>>],
     [objects |-> Batch3], [source |-> "video", objects |-> Batch5]}

LimitParams == {""} \cup {ToString(n) : n \in LimitValues \ {DefaultLimit}}

Queries == {Empty} \cup {[limit |-> text] : text \in LimitParams}

Methods == {"GET", "POST", "DELETE", "OPTIONS"}

Paths ==
    {"/.netlify/functions/api/health",
     "/.netlify/functions/api/detections",
     "/.netlify/functions/api/stats",
     "/api/health"}

\* events of the function: any method on any path; a body on POST
\* /detections, a query string on GET /detections
Events ==
    {[httpMethod |-> m, path |-> p] : m \in Methods, p \in Paths}
    \cup {[httpMethod |-> "POST",
           path |-> "/.netlify/functions/api/detections",
           body |-> <<b>>] : b \in Bodies}
    \cup {[httpMethod |-> "GET",
           path |-> "/.netlify/functions/api/detections",
           queryStringParameters |-> q] : q \in Queries}

-----------------------------------------------------------------------------

Next ==
    \/ initDatabase
    \/ serverInitDatabase
    \/ Tick
    \/ \E event \in Events : handler(event)
    \/ appGetHealth
    \/ \E body \in Bodies : appPostDetections(body)
    \/ \E query \in Queries : appGetDetections(query)
    \/ appGetStats
    \/ appDeleteDetections

Spec == Init /\ [][Next]_vars

-----------------------------------------------------------------------------
(* Predicates on the latest answer *)

\* the answer reports that the store could not be reached
StoreUnreachable(l) ==
    /\ l.res.statusCode = 500
    /\ "details" \in DOMAIN l.res.body
    /\ l.res.body.details = ConnectionError

\* the body of an ingest request carries a non-empty list of objects
NonEmptyBatch(l) ==
    /\ "objects" \in DOMAIN l.req
    /\ l.req.objects # <<>>

\* the body of an ingest request is an object without `objects`, or with
\* the empty list
MissingOrEmptyBatch(l) ==
    /\ "unparsed" \notin DOMAIN l.req
    /\ ("objects" \notin DOMAIN l.req \/ l.req.objects = <<>>)

-----------------------------------------------------------------------------
(* C1 *)

\* C1: on a database whose table was created by the entry point's own
\* initDatabase, with the store reachable, every ingest of a non-empty list
\* is answered 200 with success and the stored row, and that row is the one
\* row added.
C1_IngestStoresRow ==
    ( /\ last.op = "post"
      /\ NonEmptyBatch(last)
      /\ ~StoreUnreachable(last)
      /\ catalog = {CreateTableOf(last.entry)} )
    => ( /\ last.res.statusCode = 200
         /\ last.res.body.success
         /\ last.res.body.data \in rows
         /\ last.res.body.data.id = nextId - 1 )

-----------------------------------------------------------------------------
(* C2 *)

\* C2: an ingest whose body lacks `objects` or carries the empty list is
\* answered 400 with an error envelope and leaves the stored rows as they
\* were, in every state of the store and whatever `source` is.
C2_EmptyBatchRejected ==
    [][ (clock' = clock /\ last'.op = "post" /\ MissingOrEmptyBatch(last'))
        => ( /\ last'.res.statusCode = 400
             /\ DOMAIN last'.res.body = {"error"}
             /\ rows' = rows
             /\ nextId' = nextId ) ]_vars

C2_Witness ==
    /\ last.op = "post"
    /\ last.req = [source |-> "video", objects |-> <<>>]
    /\ last.res.statusCode = 400
    /\ rows # {}

-----------------------------------------------------------------------------
(* C3 *)

\* C3: every stored row has total_objects equal to the length of its stored
\* object list and at least 1, and unique_objects equal to the number of
\* distinct classes of that list, between 1 and total_objects.
C3_RowCounts ==
    \A r \in rows :
        /\ r.total_objects = Len(r.objects_data)
        /\ r.total_objects >= 1
        /\ r.unique_objects =
              Cardinality({r.objects_data[i].class : i \in DOMAIN r.objects_data})
        /\ 1 <= r.unique_objects
        /\ r.unique_objects <= r.total_objects

C3_Witness ==
    /\ Cardinality(rows) = 2
    /\ \E r \in rows : r.total_objects = 5 /\ r.unique_objects = 3
    /\ \E r \in rows : r.total_objects = 3 /\ r.unique_objects = 2
    /\ last.op = "stats"

-----------------------------------------------------------------------------
(* C4 *)

\* the distinct classes of a batch in order of first appearance
RECURSIVE FirstSeenClasses(_)
FirstSeenClasses(objects) ==
    IF objects = <<>> THEN <<>>
    ELSE LET before == FirstSeenClasses(SubSeq(objects, 1, Len(objects) - 1))
             class == objects[Len(objects)].class
         IN  IF \E i \in DOMAIN before : before[i] = class
             THEN before ELSE Append(before, class)

FirstSeenText(objects) ==
    LET classes == FirstSeenClasses(objects)
    IN  Join([i \in DOMAIN classes |->
                classes[i] \o " (" \o
                ToString(Cardinality({j \in DOMAIN objects :
                                        objects[j].class = classes[i]}))
                \o ")"],
             ", ")

\* C4: the detected_objects text an ingest computes lists every distinct
\* class once as "<class> (<count>)", joined by ", ", in order of first
\* appearance in the batch, for every label, integer-like labels included.
C4_FirstSeenOrder ==
    (last.op = "post" /\ NonEmptyBatch(last))
    => last.values.detected_objects = FirstSeenText(last.req.objects)

-----------------------------------------------------------------------------
(* C5 *)

PositiveLimit(l) ==
    /\ "limit" \in DOMAIN l.req
    /\ IsBigint(l.req.limit)
    /\ Bigint(l.req.limit) > 0

\* C5: on a database whose table was created by the entry point's own
\* initDatabase, with the store reachable, a history request with a positive
\* limit N succeeds with min(N, number of rows) rows, newest first in the
\* order the rows were created (the order of their ids), and no row it
\* returns was created before a row it leaves out.
C5_HistoryNewestFirst ==
    ( /\ last.op = "get"
      /\ PositiveLimit(last)
      /\ ~StoreUnreachable(last)
      /\ catalog = {CreateTableOf(last.entry)} )
    => ( /\ last.res.statusCode = 200
         /\ LET data == last.res.body.data
                returned == {data[i] : i \in DOMAIN data}
            IN  /\ last.res.body.count = Len(data)
                /\ Len(data) = Min(Bigint(last.req.limit), Cardinality(rows))
                /\ returned \subseteq rows
                /\ \A i, j \in DOMAIN data : i < j => data[i].id > data[j].id
                /\ \A r \in rows \ returned :
                      \A q \in returned : q.id > r.id )

-----------------------------------------------------------------------------
(* C6 *)

\* C6: a history request without `limit` queries the store with 50; a
\* history query the store runs never has a non-positive limit nor an
\* absurdly large one (1000000 here), and no answer carries that many rows.
C6_LimitDefaultedOrClamped ==
    ( /\ last.op = "get"
      /\ ~StoreUnreachable(last)
      /\ catalog = {createTableQuery} )
    => ( /\ "limit" \notin DOMAIN last.req
              => last.values = <<ToString(DefaultLimit)>>
         /\ IsBigint(last.values[1])
         /\ Bigint(last.values[1]) >= 1
         /\ Bigint(last.values[1]) < 1000000
         /\ last.res.statusCode = 200 => last.res.body.count < 1000000 )

-----------------------------------------------------------------------------
(* C7 *)

\* C7: with the store reachable and the table in place, a stats request is
\* answered 200 with total_detections the number of rows,
\* total_objects_detected the number of objects over all rows and
\* max_objects_in_detection the largest number of objects in a row; over no
\* rows the count is 0 and the other aggregates are null.
C7_Stats ==
    last.op = "stats"
    => /\ \/ last.res.statusCode = 200
          \/ /\ last.res.statusCode = 500
             /\ last.res.body.details \in {ConnectionError, NoRelation}
       /\ TableExists("detections") /\ ~StoreUnreachable(last)
            => last.res.statusCode = 200
       /\ last.res.statusCode = 200
            => LET stats == last.res.body.stats
               IN  /\ last.res.body.success
                   /\ stats.total_detections = Cardinality(rows)
                   /\ rows = {}
                        => /\ stats.total_detections = 0
                           /\ stats.total_objects_detected = Null
                           /\ stats.max_objects_in_detection = Null
                   /\ rows # {}
                        => /\ stats.total_objects_detected =
                                Cardinality(UNION {
                                  {<<r.id, i>> : i \in DOMAIN r.objects_data} :
                                  r \in rows})
                           /\ \E r \in rows :
                                Len(r.objects_data) =
                                  stats.max_objects_in_detection
                           /\ \A r \in rows :
                                Len(r.objects_data) <=
                                  stats.max_objects_in_detection

C7_Witness ==
    /\ last.op = "stats"
    /\ last.res.statusCode = 200
    /\ last.res.body.stats.total_detections = 2
    /\ last.res.body.stats.total_objects_detected = 8
    /\ last.res.body.stats.max_objects_in_detection = 5

-----------------------------------------------------------------------------
(* C8 *)

\* C8: a successful purge leaves no row, and a history request (default
\* limit) of the same entry point that follows it with no ingest in
\* between, the store reachable and the table created by that entry point's
\* own initDatabase, succeeds with count 0 and an empty list.
C8_PurgeThenEmptyHistory ==
    [][ /\ (last'.op = "delete" /\ last'.res.statusCode = 200) => rows' = {}
        /\ ( /\ last.op = "delete"
             /\ last.res.statusCode = 200
             /\ clock' = clock
             /\ last'.op = "get"
             /\ last'.entry = last.entry
             /\ last'.req = Empty
             /\ catalog = {CreateTableOf(last.entry)}
             /\ ~StoreUnreachable(last') )
           => ( /\ last'.res.statusCode = 200
                /\ last'.res.body.success
                /\ last'.res.body.count = 0
                /\ last'.res.body.data = <<>> ) ]_vars

-----------------------------------------------------------------------------
(* C9 *)

\* C9: a run of initDatabase, the first or a repeated one, alone or racing
\* another, never raises its error to the caller, never touches the rows,
\* leaves an existing table as it is, and with the store reachable ends
\* with exactly one table detections: the one a single run creates when
\* there was none.
C9_InitIdempotent ==
    [][ last'.op = "init"
        => ( /\ last'.res.outcome \in {"ok", "logged"}
             /\ rows' = rows
             /\ nextId' = nextId
             /\ catalog # {} => catalog' = catalog
             /\ last'.res.error # ConnectionError
                  => /\ Cardinality(catalog') = 1
                     /\ \A t \in catalog' : t.name = "detections"
             /\ (last'.res.error = "" /\ catalog = {})
                  => catalog' = {CreateTableOf(last'.entry)} ) ]_vars

C9_Witness ==
    /\ last.op = "init"
    /\ last.res.error = DuplicateRelation
    /\ last.res.outcome = "logged"
    /\ Cardinality(rows) = 2
    /\ Cardinality(catalog) = 1

-----------------------------------------------------------------------------
(* C10 *)

\* the operation each (method, path) of the function is to reach
RoutingTable(method, path) ==
    IF method = "OPTIONS" THEN "options"
    ELSE IF <<method, path>> = <<"GET", "/.netlify/functions/api/health">>
    THEN "health"
    ELSE IF <<method, path>> = <<"POST", "/.netlify/functions/api/detections">>
    THEN "post"
    ELSE IF <<method, path>> = <<"GET", "/.netlify/functions/api/detections">>
    THEN "get"
    ELSE IF <<method, path>> = <<"DELETE", "/.netlify/functions/api/detections">>
    THEN "delete"
    ELSE IF <<method, path>> = <<"GET", "/.netlify/functions/api/stats">>
    THEN "stats"
    ELSE "notfound"

\* C10: the function answers OPTIONS on any path with 200, an empty body and
\* the permissive CORS headers, every other pair outside the five defined
\* ones with 404 and an error envelope, both without touching the store,
\* and each of the five defined pairs with its own operation.
C10_RouterTotalExact ==
    [][ (last'.entry = "handler" /\ last'.op # "init")
        => ( /\ last'.op = RoutingTable(request'.httpMethod, request'.path)
             /\ last'.op = "options"
                  => /\ last'.res.statusCode = 200
                     /\ last'.res.body = ""
                     /\ last'.res.headers.AccessControlAllowOrigin = "*"
                     /\ UNCHANGED <<catalog, rows, nextId>>
             /\ last'.op = "notfound"
                  => /\ last'.res.statusCode = 404
                     /\ DOMAIN last'.res.body = {"error"}
                     /\ UNCHANGED <<catalog, rows, nextId>> ) ]_vars

C10_Witness ==
    /\ last.op = "notfound"
    /\ request = [httpMethod |-> "DELETE",
                  path |-> "/.netlify/functions/api/stats"]
    /\ last.res.statusCode = 404
    /\ rows # {}

====
